---- MODULE Spec2Model ----
(***************************************************************************)
(* Model of mcp_openai_qwen_agent.py: the session loop of main, the        *)
(* orchestration loop agent_loop and the tool callables of MCPClient.      *)
(*                                                                         *)
(* Encoding of Python values:                                              *)
(*   - a dict is a record; a key the dict does not have is a field the     *)
(*     record does not have;                                               *)
(*   - an attribute whose value is None and that the code only tests with  *)
(*     "is None" / "is not None" (message.tool_calls, the tools= keyword   *)
(*     of a completion call) is a field the record does not have;          *)
(*   - a text that may be None (message.content) is a string, None being   *)
(*     the string None below, which no text of the model equals;           *)
(*   - a str is a TLA+ string, except the user's input line, which is a    *)
(*     sequence of one-character strings so that str.lower can be          *)
(*     computed, and a tool description and the tool list of the system    *)
(*     prompt, which are sequences of pieces, a line break being a piece   *)
(*     of its own, so that the text can be split into lines;               *)
(*   - a list, and a dict in its insertion order, is a sequence.           *)
(***************************************************************************)
EXTENDS Naturals, Sequences, FiniteSets, TLC

\* ------------------------------------------------------------------ bounds
\* Number of agent_loop calls one session makes at most.
MaxTurns == 2
\* Number of ToolCalls one completion response carries at most.
MaxCalls == 2
\* The requests one MCPClient forwards to its ClientSession.
MaxForwarded == 2
\* Number of operation descriptors list_tools returns at most.
MaxOps == 3

VARIABLES
    mcp_tools,       \* main: the operation descriptors get_available_tools returned
    tools,           \* main: the catalog dict, in insertion order
    messages,        \* the list object agent_loop appends to
    carried,         \* main's variable `messages` is that list (FALSE: it is None)
    main_pc,         \* main: "input" (at input()), "turn" (awaiting agent_loop), "exited"
    pc,              \* agent_loop: the await it is suspended at, or "idle"
    user_input,      \* main: the last line read
    first_response,  \* agent_loop: first_response, NoResponse before it arrives
    new_response,    \* agent_loop: new_response, NoResponse before it is bound
    k,               \* agent_loop: position of the for loop in tool_calls (0: not in it)
    requests,        \* history: the requests this turn sent to the two services
    old,             \* history: the transcript passed to this agent_loop call (<<>> for None)
    passed,          \* history: this agent_loop call was passed a transcript
    stamp,           \* history: stamp[i] is the turn that appended messages[i]
    turn,            \* history: number of agent_loop calls so far
    outcome,         \* history: how the last agent_loop call ended
    error,           \* history: the exception the last agent_loop call raised
    answer,          \* main: `response`, the text agent_loop returned
    failed,          \* history: position of the ToolCall whose invocation failed (0: none)
    replies,         \* history: number of this turn's requests that returned or raised
    exit_cause,      \* history: why the session loop ended
    client_pc,       \* MCPClient: where its scope is, from "new" to "left"
    self_client,     \* MCPClient: self._client is bound (FALSE: it is None)
    self_session,    \* MCPClient: self.session is bound (FALSE: it is None)
    held,            \* history: the resources entered and not yet exited
    callables,       \* the tool names call_tool has returned a callable for
    forwarded,       \* history: the requests MCPClient passed to its ClientSession
    client_error     \* history: what the last MCPClient operation raised

\* The state of main and agent_loop, and the state of the MCPClient.
sessionvars == <<mcp_tools, tools, messages, carried, main_pc, pc, user_input,
                 first_response, new_response, k, requests, old, passed, stamp,
                 turn, outcome, error, answer, failed, replies, exit_cause>>
clientvars == <<client_pc, self_client, self_session, held, callables,
                forwarded, client_error>>
vars == <<sessionvars, clientvars>>

None == "None"
NoResponse == [unbound |-> TRUE]

\* ---------------------------------------------------------------- catalog
DENYLISTED == "list_tables"

\* The operation descriptors session.list_tools() may return. A description
\* is a str, kept as the sequence of its pieces, every line break a piece of
\* its own.
Op(n, d) == [name |-> n, description |-> d]
RawOperationLists ==
    { <<>>,
      <<Op("read_query", <<"run a SELECT">>),
        Op("list_tables", <<"list the tables">>)>>,
      <<Op("list_tables", <<"list the tables">>),
        Op("write_query", <<"run an UPDATE">>),
        Op("read_query", <<"run a SELECT">>)>> }

\* Faulty variant of DictSet: every descriptor gets an entry of its own.
DictAppend(d, key, value) == Append(d, value)
\* The descriptors a server may send: two of a name, a description of two
\* lines, and the denylisted operation.
OpPool ==
    { Op("read_query", <<"run a SELECT">>),
      Op("read_query", <<"read rows">>),
      Op("write_query", <<"run an UPDATE">>),
      Op("describe_table", <<"list the columns", "\n", "of a table">>),
      Op("list_tables", <<"list the tables">>) }

\* dict[key] = value on a dict kept in insertion order: a key already there
\* keeps its position and takes the new value.
DictSet(d, key, value) ==
    IF \E i \in 1..Len(d) : d[i].name = key
    THEN [i \in 1..Len(d) |-> IF d[i].name = key THEN value ELSE d[i]]
    ELSE Append(d, value)

ToolEntry(tool) ==
    [name |-> tool.name,
     callable |-> tool.name,
     schema |-> [type |-> "function",
                 function |-> [name |-> tool.name,
                               description |-> tool.description]]]

RECURSIVE BuildCatalog(_)
BuildCatalog(descriptors) ==
    IF descriptors = <<>> THEN <<>>
    ELSE LET n == Len(descriptors)
             rest == BuildCatalog(SubSeq(descriptors, 1, n - 1))
             tool == descriptors[n]
         IN IF tool.name # DENYLISTED
            THEN DictSet(rest, tool.name, ToolEntry(tool))
            ELSE rest

Keys(d) == {d[i].name : i \in 1..Len(d)}
Lookup(d, key) == d[CHOOSE i \in 1..Len(d) : d[i].name = key]

\* ---------------------------------------------------------- system prompt
RECURSIVE Join(_, _)
Join(sep, lines) ==
    IF lines = <<>> THEN ""
    ELSE IF Len(lines) = 1 THEN lines[1]
    ELSE lines[1] \o sep \o Join(sep, Tail(lines))

\* sep.join(items) on strs kept as sequences of pieces.
RECURSIVE JoinPieces(_, _)
JoinPieces(sep, items) ==
    IF items = <<>> THEN <<>>
    ELSE IF Len(items) = 1 THEN items[1]
    ELSE items[1] \o sep \o JoinPieces(sep, Tail(items))

\* Faulty variant of ToolLines: the tools are listed by name only.
ToolLinesWithoutDescription(catalog) ==
    [i \in 1..Len(catalog) |-> <<catalog[i].name, ": ">>]
\* [f"{t['name']}: {t['schema']['function']['description']}" for t in tools.values()]
ToolLines(catalog) ==
    [i \in 1..Len(catalog) |->
        <<catalog[i].name, ": ">> \o catalog[i].schema.function.description]

\* "\n- ".join([...]), the text put in the place of {tools}.
Enumeration(catalog) == JoinPieces(<<"\n", "- ">>, ToolLines(catalog))

SystemPrompt(catalog) ==
    "You are a helpful assistant ...\n\n# Tools\n\n"
        \o Join("", Enumeration(catalog))
        \o "\n\n# Notes \n\n- ..."

\* ------------------------------------------------------------ session CLI
UpperCase == <<"A","B","C","D","E","F","G","H","I","J","K","L","M",
               "N","O","P","Q","R","S","T","U","V","W","X","Y","Z">>
LowerCase == <<"a","b","c","d","e","f","g","h","i","j","k","l","m",
               "n","o","p","q","r","s","t","u","v","w","x","y","z">>

\* str.lower, character by character.
LowerChar(c) ==
    IF \E i \in 1..26 : UpperCase[i] = c
    THEN LowerCase[CHOOSE i \in 1..26 : UpperCase[i] = c]
    ELSE c
Lower(s) == [i \in 1..Len(s) |-> LowerChar(s[i])]

\* The characters of a line as one str.
Str(s) == Join("", s)

\* user_input.lower() in ["quit", "exit", "q"]
IsSentinel(line) ==
    Lower(line) \in { <<"q","u","i","t">>, <<"e","x","i","t">>, <<"q">> }

\* The lines input() may return.
Inputs ==
    { <<"q">>, <<"Q">>, <<"q","u","i","t">>, <<"Q","u","I","T">>,
      <<"e","x","i","t">>, <<"E","x","i","t">>,
      <<"h","i">>, <<"q","u","i","t"," ">> }

\* Faulty variant of AfterException: no except clause for Exception, so that
\* every exception leaves the loop.
ExceptLeavesLoop(e) == "exited"
\* What the except clauses of the session loop do with an exception raised
\* inside the try: KeyboardInterrupt breaks, any Exception is printed and the
\* loop goes on to the next input().
AfterException(e) == IF e = "KeyboardInterrupt" THEN "exited" ELSE "input"

\* ------------------------------------------------- completion service data
\* tool_call.function.arguments: a str (field str), or a value that is not
\* a str and is passed on unparsed (field obj).
ArgsDict == [str |-> "{\"query\": \"SELECT 1\"}"]
ArgsMalformed == [str |-> "{\"query\": "]
ArgsList == [str |-> "[1]"]
ArgsObject == [obj |-> "query=SELECT 1"]

\* json.loads on the texts above.
JsonLoads(s) ==
    CASE s = "{\"query\": \"SELECT 1\"}" -> [kind |-> "dict", value |-> "query=SELECT 1"]
      [] s = "[1]" -> [kind |-> "list", value |-> "1"]
      [] OTHER -> [kind |-> "JSONDecodeError"]

\* json.dumps of a str.
JsonDumps(s) == "\"" \o s \o "\""

ToolCall(i, n, a) == [id |-> i, name |-> n, arguments |-> a]
\* The ToolCalls a response may carry. Ids are opaque and chosen by the
\* service: two calls may carry the same id.
ToolCallPool ==
    { ToolCall("call_1", "read_query", ArgsDict),
      ToolCall("call_2", "write_query", ArgsObject),
      ToolCall("call_2", "list_tables", ArgsDict),
      ToolCall("call_3", "read_query", ArgsMalformed),
      ToolCall("call_4", "read_query", ArgsList) }

SeqsUpTo(S, n) == UNION {[1..m -> S] : m \in 0..n}

Contents == {"a", None}
FinishReasons == {"stop", "length", "tool_calls"}

\* What the first completion call may return: message.tool_calls is None
\* (no field) or a list, which may be empty.
FirstResponses ==
    {[content |-> c, finish_reason |-> f] : c \in Contents, f \in FinishReasons}
    \cup {[content |-> c, finish_reason |-> f, tool_calls |-> tc] :
            c \in {None}, f \in {"tool_calls", "stop", "length"},
            tc \in SeqsUpTo(ToolCallPool, MaxCalls)}

\* The first responses of the session specification, whose turns multiply: a
\* direct answer, an unknown finish_reason, finish_reason tool_calls without
\* tool_calls, and tool_calls that are empty, one call, two calls, a call of
\* the denylisted tool, alone and before a good one, and a call with
\* malformed arguments after a good one.
SessionToolCalls ==
    { <<>>,
      <<ToolCall("call_1", "read_query", ArgsDict)>>,
      <<ToolCall("call_1", "read_query", ArgsDict),
        ToolCall("call_2", "write_query", ArgsObject)>>,
      <<ToolCall("call_2", "list_tables", ArgsDict)>>,
      <<ToolCall("call_2", "list_tables", ArgsDict),
        ToolCall("call_1", "read_query", ArgsDict)>>,
      <<ToolCall("call_1", "read_query", ArgsDict),
        ToolCall("call_3", "read_query", ArgsMalformed)>> }
SessionFirstResponses ==
    { [content |-> "a", finish_reason |-> "stop"],
      [content |-> None, finish_reason |-> "length"],
      [content |-> None, finish_reason |-> "tool_calls"] }
    \cup {[content |-> None, finish_reason |-> "tool_calls", tool_calls |-> tc] :
            tc \in SessionToolCalls}
    \cup {[content |-> "a", finish_reason |-> "stop", tool_calls |-> <<>>]}

\* What the follow-up completion call may return.
FollowupResponses ==
    {[content |-> c, finish_reason |-> "stop"] : c \in {"b", None}}
    \cup {[content |-> "b", finish_reason |-> "tool_calls",
           tool_calls |-> <<ToolCall("call_5", "read_query", ArgsDict)>>]}

\* The text of response.content[0].text for a reply that has one.
ToolTexts == {"1 row"}

\* ------------------------------------------------------------- agent_loop
\* Faulty variant of InitialMessages: the transcript passed in is dropped.
AlwaysFreshMessages(catalog, msgs, given) ==
    <<[role |-> "system", content |-> SystemPrompt(catalog)]>>
\* Faulty variant of InitialMessages: every call adds the system message.
SystemMessageEveryTurn(catalog, msgs, given) ==
    IF ~given
    THEN <<[role |-> "system", content |-> SystemPrompt(catalog)]>>
    ELSE Append(msgs, [role |-> "system", content |-> SystemPrompt(catalog)])
\* messages = [system message] if messages is None else messages
InitialMessages(catalog, msgs, given) ==
    IF ~given
    THEN <<[role |-> "system", content |-> SystemPrompt(catalog)]>>
    ELSE msgs

UserMessage(query) == [role |-> "user", content |-> Str(query)]

Schemas(catalog) == [i \in 1..Len(catalog) |-> catalog[i].schema]

\* client.chat.completions.create(model, messages, tools, max_tokens, temperature)
FirstRequest(catalog, msgs) ==
    IF Len(catalog) > 0
    THEN [kind |-> "complete", n_messages |-> Len(msgs), max_tokens |-> 4096,
          temperature |-> 0, tools |-> Schemas(catalog)]
    ELSE [kind |-> "complete", n_messages |-> Len(msgs), max_tokens |-> 4096,
          temperature |-> 0]

\* Faulty variant of FollowupRequest: the follow-up call offers the tools again.
FollowupRequestWithTools(catalog, msgs) ==
    [kind |-> "complete", n_messages |-> Len(msgs), tools |-> Schemas(catalog)]
\* client.chat.completions.create(model, messages)
FollowupRequest(catalog, msgs) ==
    [kind |-> "complete", n_messages |-> Len(msgs)]

\* session.call_tool(tool_name, arguments=kwargs)
CallRequest(tool_name, kwargs) ==
    [kind |-> "call_tool", name |-> tool_name, arguments |-> kwargs]

StopReason(resp) ==
    IF "tool_calls" \in DOMAIN resp THEN "tool_calls" ELSE resp.finish_reason

\* Faulty variant of AssistantToolCallsMessage: the ToolCalls are left out.
AssistantMessageWithoutToolCalls(assistant_message) ==
    [role |-> "assistant", content |-> assistant_message.content]
\* {"role": "assistant", "content": ..., "tool_calls": message.tool_calls}
AssistantToolCallsMessage(assistant_message) ==
    IF "tool_calls" \in DOMAIN assistant_message
    THEN [role |-> "assistant", content |-> assistant_message.content,
          tool_calls |-> assistant_message.tool_calls]
    ELSE [role |-> "assistant", content |-> assistant_message.content]

\* json.loads(arguments) if isinstance(arguments, str) else arguments
ParseArguments(arguments) ==
    IF "str" \in DOMAIN arguments
    THEN JsonLoads(arguments.str)
    ELSE [kind |-> "dict", value |-> arguments.obj]

\* Faulty variant of ToolMessage: tool_call_id is taken from the function name.
ToolMessageIdFromName(tool_call, tool_result) ==
    [role |-> "tool", tool_call_id |-> tool_call.name, name |-> tool_call.name,
     content |-> JsonDumps(tool_result)]
\* {"role": "tool", "tool_call_id": ..., "name": ..., "content": json.dumps(...)}
ToolMessage(tool_call, tool_result) ==
    [role |-> "tool", tool_call_id |-> tool_call.id, name |-> tool_call.name,
     content |-> JsonDumps(tool_result)]

\* Faulty variant of FinalMessage: the ToolCalls of the response are appended
\* with its content.
FinalMessageWithToolCalls(resp) ==
    IF "tool_calls" \in DOMAIN resp
    THEN [role |-> "assistant", content |-> resp.content,
          tool_calls |-> resp.tool_calls]
    ELSE [role |-> "assistant", content |-> resp.content]
\* {"role": "assistant", "content": new_response.choices[0].message.content}
FinalMessage(resp) == [role |-> "assistant", content |-> resp.content]

\* ---------------------------------------------------------------- actions
Stamps(n, t) == [i \in 1..n |-> t]

\* The MCPClient inside the `async with` of main, connected.
ClientConnected ==
    /\ client_pc = "connected"
    /\ self_client = TRUE
    /\ self_session = TRUE
    /\ held = {"transport", "session"}
    /\ callables = Keys(tools)
    /\ forwarded = <<>>
    /\ client_error = "none"

\* messages = None in main, and no agent_loop call yet.
NoTurnYet ==
    /\ replies = 0
    /\ messages = <<>>
    /\ carried = FALSE
    /\ pc = "idle"
    /\ user_input = <<>>
    /\ first_response = NoResponse
    /\ new_response = NoResponse
    /\ k = 0
    /\ requests = <<>>
    /\ old = <<>>
    /\ passed = FALSE
    /\ stamp = <<>>
    /\ turn = 0
    /\ outcome = "none"
    /\ error = "none"
    /\ answer = None
    /\ failed = 0
    /\ exit_cause = "none"

\* main at its first input(), with the catalog of the operations ops.
AtFirstInput(ops) ==
    /\ mcp_tools = ops
    /\ tools = BuildCatalog(ops)
    /\ ClientConnected
    /\ main_pc = "input"
    /\ NoTurnYet

Init == \E ops \in RawOperationLists : AtFirstInput(ops)

\* Faulty variant of LoopDone: only the first ToolCall is processed.
LoopDoneAfterFirstCall(calls, j) == j > Len(calls) \/ j > 1
\* for tool_call in assistant_message.tool_calls: the loop is past its last
\* ToolCall when it reaches position j.
LoopDone(calls, j) == j > Len(calls)

\* An exception e leaves agent_loop with the list as msgs: main's `messages`
\* is not assigned, and the except clauses of the session loop decide.
Raise(e, msgs, stp, reqs, j) ==
    /\ messages' = msgs
    /\ stamp' = stp
    /\ requests' = reqs
    /\ k' = j
    /\ pc' = "idle"
    /\ outcome' = "raised"
    /\ error' = e
    /\ main_pc' = AfterException(e)
    /\ exit_cause' = IF AfterException(e) = "exited" THEN "exception" ELSE exit_cause
    /\ UNCHANGED <<carried, answer>>

\* agent_loop appends the final assistant message and returns; main binds
\* `response, messages` and goes back to input().
Return(resp, msgs, stp) ==
    /\ messages' = Append(msgs, FinalMessage(resp))
    /\ stamp' = Append(stp, turn)
    /\ new_response' = resp
    /\ answer' = resp.content
    /\ carried' = TRUE
    /\ pc' = "idle"
    /\ outcome' = "returned"
    /\ main_pc' = "input"
    /\ UNCHANGED <<error, exit_cause>>

\* Faulty variant of InvokeTool: the callable is started and not awaited, so
\* the loop goes on to start the next ToolCall's.
InvokeToolWithoutAwait(reqs, calls, j, kwargs) ==
    LET started == Append(reqs, CallRequest(Lookup(tools, calls[j].name).callable,
                                            kwargs))
    IN IF j < Len(calls)
       THEN Append(started, CallRequest(calls[j + 1].name, calls[j + 1].arguments))
       ELSE started
\* tool_result = await tools[tool_call.function.name]["callable"](**arguments):
\* the requests sent once the callable of ToolCall j is awaited.
InvokeTool(reqs, calls, j, kwargs) ==
    Append(reqs, CallRequest(Lookup(tools, calls[j].name).callable, kwargs))

\* Faulty variant of StartCall: the operation a ToolCall names is invoked
\* without a lookup in the catalog.
StartCallByName(calls, j, msgs, stp, reqs) ==
    IF LoopDone(calls, j)
    THEN /\ messages' = msgs
         /\ stamp' = stp
         /\ requests' = Append(reqs, FollowupRequest(tools, msgs))
         /\ k' = j - 1
         /\ pc' = "AWAITING_FOLLOWUP_RESPONSE"
         /\ UNCHANGED <<carried, answer, outcome, error, main_pc, exit_cause>>
    ELSE LET arguments == ParseArguments(calls[j].arguments)
         IN IF arguments.kind = "JSONDecodeError"
            THEN Raise("JSONDecodeError", msgs, stp, reqs, j)
            ELSE IF arguments.kind # "dict"
            THEN Raise("TypeError", msgs, stp, reqs, j)
            ELSE /\ messages' = msgs
                 /\ stamp' = stp
                 /\ requests' = Append(reqs, CallRequest(calls[j].name,
                                                         arguments.value))
                 /\ k' = j
                 /\ pc' = "AWAITING_TOOL"
                 /\ UNCHANGED <<carried, answer, outcome, error, main_pc, exit_cause>>
\* The for loop over tool_calls reaches position j with the list as msgs: it
\* parses the arguments, looks the callable up and awaits it, or, past the
\* last ToolCall, sends the follow-up completion request.
StartCall(calls, j, msgs, stp, reqs) ==
    IF LoopDone(calls, j)
    THEN /\ messages' = msgs
         /\ stamp' = stp
         /\ requests' = Append(reqs, FollowupRequest(tools, msgs))
         /\ k' = j - 1
         /\ pc' = "AWAITING_FOLLOWUP_RESPONSE"
         /\ UNCHANGED <<carried, answer, outcome, error, main_pc, exit_cause>>
    ELSE LET arguments == ParseArguments(calls[j].arguments)
         IN IF arguments.kind = "JSONDecodeError"
            THEN Raise("JSONDecodeError", msgs, stp, reqs, j)
            ELSE IF calls[j].name \notin Keys(tools)
            THEN Raise("KeyError", msgs, stp, reqs, j)
            ELSE IF arguments.kind # "dict"
            THEN Raise("TypeError", msgs, stp, reqs, j)
            ELSE /\ messages' = msgs
                 /\ stamp' = stp
                 /\ requests' = InvokeTool(reqs, calls, j, arguments.value)
                 /\ k' = j
                 /\ pc' = "AWAITING_TOOL"
                 /\ UNCHANGED <<carried, answer, outcome, error, main_pc, exit_cause>>

\* Faulty variant of ToolFailure: the error is caught and handed to the
\* completion service as the tool's result.
ToolFailureAsToolMessage(e) ==
    StartCall(first_response.tool_calls, k + 1,
              Append(messages, ToolMessage(first_response.tool_calls[k], e)),
              Append(stamp, turn), requests)
\* Faulty variant of ToolFailure: a failed invocation is started again.
ToolFailureRetried(e) ==
    StartCall(first_response.tool_calls, k, messages, stamp, requests)
\* The awaited callable raises e inside the for loop: nothing catches it in
\* callable or in agent_loop.
ToolFailure(e) == Raise(e, messages, stamp, requests, k)

\* main reads a line: a sentinel ends the loop; any other line calls
\* agent_loop, which runs up to its first await. A session makes max_turns
\* calls of agent_loop at most.
Input(max_turns) ==
    /\ main_pc = "input"
    /\ \E line \in Inputs :
        /\ user_input' = line
        /\ IF IsSentinel(line)
           THEN /\ main_pc' = "exited"
                /\ exit_cause' = "sentinel"
                /\ UNCHANGED <<tools, messages, carried, pc, first_response,
                               new_response, k, requests, old, passed, stamp,
                               turn, outcome, error, answer, failed, replies>>
           ELSE /\ turn < max_turns
                /\ LET start == InitialMessages(tools, messages, carried)
                       msgs == Append(start, UserMessage(line))
                   IN /\ messages' = msgs
                      /\ stamp' = IF carried
                                  THEN Append(stamp, turn + 1)
                                  ELSE Stamps(Len(msgs), turn + 1)
                      /\ requests' = <<FirstRequest(tools, msgs)>>
                      /\ old' = IF carried THEN messages ELSE <<>>
                /\ passed' = carried
                /\ turn' = turn + 1
                /\ main_pc' = "turn"
                /\ pc' = "AWAITING_FIRST_RESPONSE"
                /\ first_response' = NoResponse
                /\ new_response' = NoResponse
                /\ k' = 0
                /\ outcome' = "none"
                /\ error' = "none"
                /\ failed' = 0
                /\ replies' = 0
                /\ UNCHANGED <<tools, carried, answer, exit_cause>>
    /\ UNCHANGED <<mcp_tools, clientvars>>

\* The first completion call returns resp, one of responses.
FirstResponse(responses) ==
    /\ main_pc = "turn"
    /\ pc = "AWAITING_FIRST_RESPONSE"
    /\ \E resp \in responses :
        /\ first_response' = resp
        /\ IF StopReason(resp) = "tool_calls"
           THEN /\ IF "tool_calls" \in DOMAIN resp
                   THEN StartCall(resp.tool_calls, 1,
                                  Append(messages, AssistantToolCallsMessage(resp)),
                                  Append(stamp, turn), requests)
                   ELSE \* for tool_call in None
                        Raise("TypeError",
                              Append(messages, AssistantToolCallsMessage(resp)),
                              Append(stamp, turn), requests, k)
                /\ UNCHANGED new_response
           ELSE IF StopReason(resp) = "stop"
           THEN /\ Return(resp, messages, stamp)
                /\ UNCHANGED <<k, requests>>
           ELSE /\ Raise("ValueError", messages, stamp, requests, k)
                /\ UNCHANGED new_response
    /\ replies' = replies + 1
    /\ UNCHANGED <<mcp_tools, tools, user_input, old, passed, turn, failed>>
    /\ UNCHANGED clientvars

\* The first completion call raises.
FirstCallFails ==
    /\ main_pc = "turn"
    /\ pc = "AWAITING_FIRST_RESPONSE"
    /\ Raise("APIError", messages, stamp, requests, k)
    /\ replies' = replies + 1
    /\ UNCHANGED <<mcp_tools, tools, user_input, first_response, new_response, old,
                   passed, turn, failed>>
    /\ UNCHANGED clientvars

\* session.call_tool returns a reply whose content[0].text is text.
ToolReturns ==
    /\ main_pc = "turn"
    /\ pc = "AWAITING_TOOL"
    /\ \E text \in ToolTexts :
        LET calls == first_response.tool_calls
        IN StartCall(calls, k + 1,
                     Append(messages, ToolMessage(calls[k], text)),
                     Append(stamp, turn), requests)
    /\ replies' = replies + 1
    /\ UNCHANGED <<mcp_tools, tools, user_input, first_response, new_response, old,
                   passed, turn, failed>>
    /\ UNCHANGED clientvars

\* session.call_tool raises, or its reply has no content (content[0] raises).
ToolFails ==
    /\ main_pc = "turn"
    /\ pc = "AWAITING_TOOL"
    /\ \E e \in {"McpError", "IndexError"} : ToolFailure(e)
    /\ failed' = k
    /\ replies' = replies + 1
    /\ UNCHANGED <<mcp_tools, tools, user_input, first_response, new_response, old,
                   passed, turn>>
    /\ UNCHANGED clientvars

\* The follow-up completion call returns resp.
FollowupResponse ==
    /\ main_pc = "turn"
    /\ pc = "AWAITING_FOLLOWUP_RESPONSE"
    /\ \E resp \in FollowupResponses : Return(resp, messages, stamp)
    /\ replies' = replies + 1
    /\ UNCHANGED <<mcp_tools, tools, user_input, first_response, k, requests, old,
                   passed, turn, failed>>
    /\ UNCHANGED clientvars

\* The follow-up completion call raises.
FollowupFails ==
    /\ main_pc = "turn"
    /\ pc = "AWAITING_FOLLOWUP_RESPONSE"
    /\ Raise("APIError", messages, stamp, requests, k)
    /\ replies' = replies + 1
    /\ UNCHANGED <<mcp_tools, tools, user_input, first_response, new_response, old,
                   passed, turn, failed>>
    /\ UNCHANGED clientvars

\* An interrupt signal raises KeyboardInterrupt inside the try of the
\* session loop, at input() or while agent_loop is awaited.
Interrupt ==
    /\ main_pc \in {"input", "turn"}
    /\ main_pc' = AfterException("KeyboardInterrupt")
    /\ exit_cause' = "interrupt"
    /\ pc' = "idle"
    /\ UNCHANGED <<tools, messages, carried, user_input, first_response,
                   new_response, k, requests, old, passed, stamp, turn,
                   outcome, error, answer, failed, replies, mcp_tools>>
    /\ UNCHANGED clientvars

\* A session of up to MaxTurns turns.
Next ==
    \/ Input(MaxTurns)
    \/ FirstResponse(SessionFirstResponses)
    \/ FirstCallFails
    \/ ToolReturns
    \/ ToolFails
    \/ FollowupResponse
    \/ FollowupFails
    \/ Interrupt

Spec == Init /\ [][Next]_vars

\* The first turn of a session, on every first response of up to MaxCalls
\* ToolCalls.
TurnNext ==
    \/ Input(1)
    \/ FirstResponse(FirstResponses)
    \/ FirstCallFails
    \/ ToolReturns
    \/ ToolFails
    \/ FollowupResponse
    \/ FollowupFails
    \/ Interrupt

SpecTurn == Init /\ [][TurnNext]_vars

\* Every awaited completion call and every awaited tool invocation returns
\* or raises.
AwaitsEnd ==
    /\ WF_vars(FirstResponse(FirstResponses) \/ FirstCallFails)
    /\ WF_vars(ToolReturns \/ ToolFails)
    /\ WF_vars(FollowupResponse \/ FollowupFails)

SpecTurnLive == Init /\ [][TurnNext]_vars /\ AwaitsEnd

\* The first turn of a session on every catalog main can build from up to
\* MaxOps operation descriptors.
InitCatalog == \E ops \in SeqsUpTo(OpPool, MaxOps) : AtFirstInput(ops)

CatalogNext ==
    \/ Input(1)
    \/ FirstResponse(SessionFirstResponses)
    \/ FirstCallFails
    \/ ToolReturns
    \/ ToolFails
    \/ FollowupResponse
    \/ FollowupFails
    \/ Interrupt

SpecCatalog == InitCatalog /\ [][CatalogNext]_vars

\* -------------------------------------------------------------- MCPClient
\* The names call_tool is given.
ToolNames == {"read_query", "write_query"}

\* MCPClient(server_params), before `async with` enters it.
InitClient ==
    /\ client_pc = "new"
    /\ self_client = FALSE
    /\ self_session = FALSE
    /\ held = {}
    /\ callables = {}
    /\ forwarded = <<>>
    /\ client_error = "none"
    /\ mcp_tools = <<>>
    /\ tools = <<>>
    /\ main_pc = "scope"
    /\ NoTurnYet

\* The channel is established from the return of session.initialize() to
\* the start of __aexit__.
Established == client_pc = "connected"

\* A step of connect() or __aexit__ that raises ends the `async with`
\* statement: an exception of __aenter__ skips __aexit__, and __aexit__ has
\* no handler around its two awaits.
Leave(e) ==
    /\ client_pc' = "left"
    /\ client_error' = e

\* connect: self._client = stdio_client(...); await self._client.__aenter__()
ConnectTransport ==
    /\ client_pc = "new"
    /\ self_client' = TRUE
    /\ \/ /\ held' = held \cup {"transport"}
          /\ client_pc' = "transport_entered"
          /\ client_error' = "none"
       \/ /\ Leave("EnterError")
          /\ UNCHANGED held
    /\ UNCHANGED <<self_session, callables, forwarded, sessionvars>>

\* connect: self.session = await session.__aenter__()
ConnectSession ==
    /\ client_pc = "transport_entered"
    /\ \/ /\ self_session' = TRUE
          /\ held' = held \cup {"session"}
          /\ client_pc' = "session_entered"
          /\ client_error' = "none"
       \/ /\ Leave("EnterError")
          /\ UNCHANGED <<self_session, held>>
    /\ UNCHANGED <<self_client, callables, forwarded, sessionvars>>

\* connect: await self.session.initialize()
ConnectInitialize ==
    /\ client_pc = "session_entered"
    /\ \/ /\ client_pc' = "connected"
          /\ client_error' = "none"
       \/ Leave("InitializeError")
    /\ UNCHANGED <<self_client, self_session, held, callables, forwarded,
                   sessionvars>>

\* An __aexit__ that raises may or may not have released its resource.
AfterExit(resource, raised) ==
    IF raised THEN {held, held \ {resource}} ELSE {held \ {resource}}

\* __aexit__, at the end of the body or on an exception in it:
\* if self.session: await self.session.__aexit__(...)
AExitSession ==
    /\ client_pc = "connected"
    /\ IF self_session
       THEN \E raised \in BOOLEAN :
                /\ held' \in AfterExit("session", raised)
                /\ IF raised THEN Leave("ExitError")
                   ELSE client_pc' = "session_exited" /\ UNCHANGED client_error
       ELSE client_pc' = "session_exited" /\ UNCHANGED <<held, client_error>>
    /\ UNCHANGED <<self_client, self_session, callables, forwarded, sessionvars>>

\* __aexit__: if self._client: await self._client.__aexit__(...)
AExitClient ==
    /\ client_pc = "session_exited"
    /\ IF self_client
       THEN \E raised \in BOOLEAN :
                /\ held' \in AfterExit("transport", raised)
                /\ Leave(IF raised THEN "ExitError" ELSE client_error)
       ELSE Leave(client_error) /\ UNCHANGED held
    /\ UNCHANGED <<self_client, self_session, callables, forwarded, sessionvars>>

\* No step of connect or __aexit__ is in progress.
ClientAtRest == client_pc \in {"new", "connected", "left"}

\* if not self.session: raise RuntimeError("Not connected to MCP server")
NotConnected == ~self_session

Forward(request) ==
    forwarded' = Append(forwarded, request @@ [established |-> Established])

\* get_available_tools: tools = await self.session.list_tools()
GetAvailableTools ==
    /\ ClientAtRest
    /\ Len(forwarded) < MaxForwarded
    /\ IF NotConnected
       THEN client_error' = "RuntimeError" /\ UNCHANGED forwarded
       ELSE client_error' = "none" /\ Forward([op |-> "list_tools"])
    /\ UNCHANGED <<client_pc, self_client, self_session, held, callables,
                   sessionvars>>

\* call_tool(tool_name): returns the callable of the tool.
CallTool(tool_name) ==
    /\ ClientAtRest
    /\ IF NotConnected
       THEN client_error' = "RuntimeError" /\ UNCHANGED callables
       ELSE client_error' = "none" /\ callables' = callables \cup {tool_name}
    /\ UNCHANGED <<client_pc, self_client, self_session, held, forwarded,
                   sessionvars>>

\* The callable call_tool returned:
\* response = await self.session.call_tool(tool_name, arguments=kwargs)
Callable(tool_name) ==
    /\ ClientAtRest
    /\ tool_name \in callables
    /\ Len(forwarded) < MaxForwarded
    /\ client_error' = "none"
    /\ Forward([op |-> "call_tool", name |-> tool_name])
    /\ UNCHANGED <<client_pc, self_client, self_session, held, callables,
                   sessionvars>>

ClientNext ==
    \/ ConnectTransport
    \/ ConnectSession
    \/ ConnectInitialize
    \/ AExitSession
    \/ AExitClient
    \/ GetAvailableTools
    \/ \E tool_name \in ToolNames : CallTool(tool_name)
    \/ \E tool_name \in ToolNames : Callable(tool_name)

SpecClient == InitClient /\ [][ClientNext]_vars

\* ------------------------------------------------------------ properties
IsPrefix(a, b) == Len(a) <= Len(b) /\ SubSeq(b, 1, Len(a)) = a

IsToolMessage(m) == m.role = "tool"
IsCallTool(r) == r.kind = "call_tool"
IsComplete(r) == r.kind = "complete"

\* The messages the current (or last) agent_loop call has appended.
TurnMessages == SubSeq(messages, Len(old) + 1, Len(messages))
TurnToolMessages == SelectSeq(TurnMessages, IsToolMessage)
\* The requests it has sent to the tool-execution and the completion service.
ToolRequests == SelectSeq(requests, IsCallTool)
CompletionRequests == SelectSeq(requests, IsComplete)

FirstArrived == "content" \in DOMAIN first_response
\* The ToolCalls the first response carries (none for None and for []).
FirstCalls ==
    IF FirstArrived /\ "tool_calls" \in DOMAIN first_response
    THEN first_response.tool_calls
    ELSE <<>>
TurnOver == pc = "idle" /\ outcome \in {"returned", "raised"}

\* C1: when the first response carries ToolCalls c1..cn (n >= 1), the tool
\* invocations made so far are those of c1, c2, ... in that order, once each,
\* the tool messages appended so far are those of c1, c2, ... in that order,
\* the i-th carrying ci.id and ci.name, a tool message is there for every
\* invocation but possibly the last; and once the loop over the ToolCalls has
\* completed (the follow-up request is sent) there are exactly n of both.
C1_InvocationOrder ==
    Len(FirstCalls) >= 1 =>
        LET n == Len(FirstCalls)
            inv == ToolRequests
            tm == TurnToolMessages
        IN /\ Len(inv) <= n
           /\ \A i \in 1..Len(inv) : inv[i].name = FirstCalls[i].name
           /\ Len(tm) <= Len(inv) /\ Len(inv) <= Len(tm) + 1
           /\ \A i \in 1..Len(tm) :
                /\ tm[i].tool_call_id = FirstCalls[i].id
                /\ tm[i].name = FirstCalls[i].name
           /\ Len(CompletionRequests) = 2 => Len(inv) = n /\ Len(tm) = n

C1_Witness ==
    /\ Len(FirstCalls) = 2
    /\ FirstCalls[1].id # FirstCalls[2].id
    /\ FirstCalls[1].name # FirstCalls[2].name
    /\ outcome = "returned"
    /\ Len(TurnToolMessages) = 2

\* C2 as stated: a turn whose first response carries n >= 1 ToolCalls never
\* ends without exactly one follow-up completion call.
C2_AlwaysFollowup ==
    (TurnOver /\ Len(FirstCalls) >= 1) => Len(CompletionRequests) = 2

\* C2, amended: with n >= 1 ToolCalls in the first response, the follow-up
\* completion request is sent exactly when all n invocations have returned and
\* their n tool messages are appended; it is the last request of the turn, the
\* only completion request after the first, and comes after the n tool
\* requests; a turn that returns has sent it, and a turn in which an
\* invocation failed or was not started has not.
C2_FollowupAfterAllInvocations ==
    Len(FirstCalls) >= 1 =>
        LET n == Len(FirstCalls)
        IN /\ Len(CompletionRequests) <= 2
           /\ (Len(TurnToolMessages) = n) <=> (Len(CompletionRequests) = 2)
           /\ Len(CompletionRequests) = 2 =>
                /\ Len(requests) = n + 2
                /\ requests[n + 2].kind = "complete"
                /\ requests[n + 2].n_messages = Len(old) + Len(TurnMessages)
                      - (IF outcome = "returned" THEN 1 ELSE 0)
                /\ \A i \in 2..(n + 1) : requests[i].kind = "call_tool"
           /\ outcome = "returned" => Len(CompletionRequests) = 2
           /\ (outcome = "raised" /\ error # "APIError") =>
                Len(CompletionRequests) = 1

C2_Witness ==
    /\ Len(FirstCalls) = 2
    /\ outcome = "returned"
    /\ Len(CompletionRequests) = 2
    /\ requests[2].name # requests[3].name

\* C3 as stated: a first response with finish_reason stop and no ToolCalls
\* leads to no tool invocation and no second completion call, and its content
\* is the answer.
C3_DirectAnswer ==
    (FirstArrived /\ Len(FirstCalls) = 0 /\ first_response.finish_reason = "stop") =>
        /\ Len(ToolRequests) = 0
        /\ Len(CompletionRequests) = 1
        /\ pc = "idle"
        /\ outcome = "returned" => answer = first_response.content

\* C4: while and after agent_loop runs on a transcript passed to it, that
\* transcript is a prefix of the list; when the call returns, the returned
\* transcript is strictly longer and is the one main carries to the next call.
C4_AppendOnly ==
    passed =>
        /\ IsPrefix(old, messages)
        /\ Len(messages) > Len(old)
        /\ outcome = "returned" => carried /\ Len(messages) >= Len(old) + 2

C4_Witness ==
    /\ passed
    /\ turn = 2
    /\ outcome = "returned"
    /\ Len(old) >= 3
    /\ Len(TurnToolMessages) >= 1

\* C5: every tool message of the transcript follows an assistant message with
\* only tool messages in between; that assistant message carries a ToolCall
\* with the tool message's tool_call_id and was appended in the same turn.
C5_ToolCallIdReferences ==
    \A i \in 1..Len(messages) :
        messages[i].role = "tool" =>
            \E j \in 1..(i - 1) :
                /\ messages[j].role = "assistant"
                /\ \A m \in (j + 1)..(i - 1) : messages[m].role = "tool"
                /\ "tool_calls" \in DOMAIN messages[j]
                /\ \E c \in 1..Len(messages[j].tool_calls) :
                        messages[j].tool_calls[c].id = messages[i].tool_call_id
                /\ stamp[j] = stamp[i]

C5_Witness ==
    /\ turn = 2
    /\ Len(messages) = Len(stamp)
    /\ \E i, j \in 1..Len(messages) :
        /\ messages[i].role = "tool" /\ stamp[i] = 1
        /\ messages[j].role = "tool" /\ stamp[j] = 2

\* C6: a turn sends at most two completion requests, the second without tool
\* schemas, and all its tool requests, at most one per ToolCall of the first
\* response, between the two; ToolCalls of the follow-up response lead to no
\* request.
C6_OneDispatchRound ==
    /\ Len(CompletionRequests) <= 2
    /\ Len(ToolRequests) <= Len(FirstCalls)
    /\ \A i \in 1..Len(requests) :
        /\ i = 1 => requests[i].kind = "complete"
        /\ (i > 1 /\ requests[i].kind = "complete") =>
                /\ i = Len(requests)
                /\ "tools" \notin DOMAIN requests[i]
    /\ "content" \in DOMAIN new_response =>
            /\ pc = "idle"
            /\ Len(requests) \in {1, Len(FirstCalls) + 2}

C6_Witness ==
    /\ "tool_calls" \in DOMAIN new_response
    /\ FirstArrived /\ new_response # first_response
    /\ Len(new_response.tool_calls) >= 1
    /\ Len(FirstCalls) >= 1
    /\ Len(tools) > 0
    /\ outcome = "returned"

C8_UnknownStopReason ==
    (FirstArrived /\ Len(FirstCalls) = 0 /\ first_response.finish_reason # "stop") =>
        /\ pc = "idle"
        /\ outcome = "raised"
        /\ Len(ToolRequests) = 0
        /\ Len(CompletionRequests) = 1
        /\ "content" \notin DOMAIN new_response

\* C9: when the invocation of the k-th ToolCall fails, the turn is over with
\* that error raised to main: the tool requests are those of calls 1..k, the
\* tool messages those of calls 1..k-1, there is one completion request, no
\* final assistant message, and main's transcript variable is not rebound.
C9_ToolFailureEscalates ==
    failed # 0 =>
        /\ pc = "idle"
        /\ outcome = "raised"
        /\ error \in {"McpError", "IndexError"}
        /\ failed \in 1..Len(FirstCalls)
        /\ Len(ToolRequests) = failed
        /\ Len(TurnToolMessages) = failed - 1
        /\ Len(CompletionRequests) = 1
        /\ "content" \notin DOMAIN new_response
        /\ messages[Len(messages)].role = "tool"
              \/ "tool_calls" \in DOMAIN messages[Len(messages)]
        /\ main_pc \in {"input", "exited"}
        /\ exit_cause # "exception"

C9_Witness ==
    /\ failed = 1
    /\ Len(FirstCalls) = 2
    /\ outcome = "raised"
    /\ main_pc = "input"

SentinelLines ==
    { <<"q">>, <<"Q">>, <<"q","u","i","t">>, <<"Q","u","I","T">>,
      <<"e","x","i","t">>, <<"E","x","i","t">> }

\* C10: the session loop is left only by a sentinel line, read at input() and
\* never passed to agent_loop, or by an interrupt; every line of Inputs that
\* is quit, exit or q in any case ends it; an exception raised by agent_loop
\* leaves the loop at input().
C10_SessionLoop ==
    /\ [](main_pc = "exited" => exit_cause \in {"sentinel", "interrupt"})
    /\ []((outcome = "raised" /\ pc = "idle" /\ exit_cause = "none") => main_pc = "input")
    /\ [][/\ (main_pc # "exited" /\ main_pc' = "exited") =>
                \/ exit_cause' = "interrupt"
                \/ /\ main_pc = "input"
                   /\ user_input' \in SentinelLines
                   /\ turn' = turn /\ requests' = requests /\ messages' = messages
          /\ (main_pc = "input" /\ user_input' \in SentinelLines /\ main_pc' # main_pc) =>
                main_pc' = "exited"
          /\ (main_pc = "turn" /\ outcome' = "raised") => main_pc' = "input"
         ]_vars

C10_Witness ==
    /\ outcome = "raised"
    /\ error = "ValueError"
    /\ main_pc = "exited"
    /\ exit_cause = "sentinel"
    /\ user_input = <<"Q","u","I","T">>


\* C11: the channel is released on every path out of the MCPClient scope:
\* once the `async with` statement is left (normally, by an error in its
\* body, by a failure part-way through connect, or by a failure while the
\* session is closed), no transport or session resource that was entered is
\* still held.
C11_ReleasedOnEveryPath == client_pc = "left" => held = {}


\* C12: get_available_tools, call_tool and the callable it returns forward
\* nothing while the connection is not established: every request the
\* MCPClient passes to its session is passed while the channel is
\* established (an operation called otherwise raises the not-connected
\* RuntimeError instead).
C12_NothingForwardedUnconnected ==
    \A i \in 1..Len(forwarded) : forwarded[i].established


\* C13: the catalog main builds has exactly one key per distinct name of the
\* operations listed other than list_tables, never the key list_tables, the
\* schema of each entry names its key, and no turn, returned or failed,
\* changes the catalog.
ListedNames == {mcp_tools[i].name : i \in 1..Len(mcp_tools)}
C13_CatalogKeys ==
    /\ Keys(tools) = ListedNames \ {DENYLISTED}
    /\ Len(tools) = Cardinality(Keys(tools))
    /\ DENYLISTED \notin Keys(tools)
    /\ \A i \in 1..Len(tools) : tools[i].schema.function.name = tools[i].name
C13_Catalog == []C13_CatalogKeys /\ [][tools' = tools]_vars
C13_Witness ==
    /\ Len(mcp_tools) = 3
    /\ mcp_tools[1].name = mcp_tools[3].name
    /\ mcp_tools[1] # mcp_tools[3]
    /\ mcp_tools[2].name = DENYLISTED
    /\ outcome = "raised"
    /\ error = "McpError"


\* C14: the external requests of a turn never overlap: at most one request,
\* to the completion service or to a tool, is outstanding at any time, and
\* the invocation of ToolCall i+1 is started only after that of ToolCall i
\* has returned and its tool message is appended.
Outstanding == Len(requests) - replies
C14_NoOverlap ==
    /\ replies <= Len(requests)
    /\ Outstanding <= 1
    /\ pc = "AWAITING_TOOL" =>
           /\ Outstanding = 1
           /\ Len(ToolRequests) = k
           /\ Len(TurnToolMessages) = k - 1
    /\ Len(ToolRequests) <= Len(TurnToolMessages) + 1
C14_Witness ==
    /\ pc = "AWAITING_TOOL"
    /\ k = 2
    /\ Len(first_response.tool_calls) = 2
    /\ replies = 2
    /\ Len(requests) = 3


\* C15: agent_loop called with no transcript creates one that is the system
\* message of the catalog followed by the user message; called with a
\* transcript it appends the user message and no system message. So, after
\* any returned and failed turns, every transcript (that of main, when it is
\* not absent, too) has exactly one system message, at its first position.
IsSystemMessage(m) == m.role = "system"
C15_OneSystemMessage ==
    /\ pc = "AWAITING_FIRST_RESPONSE" =>
           IF passed
           THEN messages = Append(old, UserMessage(user_input))
           ELSE messages = <<[role |-> "system", content |-> SystemPrompt(tools)],
                             UserMessage(user_input)>>
    /\ messages # <<>> =>
           /\ messages[1] = [role |-> "system", content |-> SystemPrompt(tools)]
           /\ Len(SelectSeq(messages, IsSystemMessage)) = 1
C15_Witness ==
    /\ turn = 2
    /\ passed
    /\ carried
    /\ outcome = "raised"
    /\ Len(tools) = 2
    /\ main_pc = "input"


\* text.split("\n") on a str kept as the sequence of its pieces.
HasBreak(text) == \E i \in 1..Len(text) : text[i] = "\n"
FirstBreak(text) ==
    CHOOSE i \in 1..Len(text) :
        text[i] = "\n" /\ \A j \in 1..(i - 1) : text[j] # "\n"
RECURSIVE SplitLines(_)
SplitLines(text) ==
    IF ~HasBreak(text) THEN <<text>>
    ELSE <<SubSeq(text, 1, FirstBreak(text) - 1)>>
             \o SplitLines(SubSeq(text, FirstBreak(text) + 1, Len(text)))

\* The tool list of the system message the transcript starts with.
PromptLines == SplitLines(Enumeration(tools))
PromptBuilt == messages # <<>> /\ Len(tools) > 0
\* 'name: description' of the catalog's entry i.
EntryText(i) == <<tools[i].name, ": ">> \o tools[i].schema.function.description
IsBreak(piece) == piece = "\n"
Breaks(text) == Len(SelectSeq(text, IsBreak))
RECURSIVE BreaksUpTo(_)
BreaksUpTo(i) == IF i = 0 THEN 0 ELSE BreaksUpTo(i - 1) + Breaks(EntryText(i))
\* Where the text of entry i starts in the enumeration.
RECURSIVE EntryStart(_)
EntryStart(i) ==
    IF i = 1 THEN 1 ELSE EntryStart(i - 1) + Len(EntryText(i - 1)) + 2

\* C16 as stated: for a non-empty catalog, the tool enumeration of the
\* system prompt has exactly one line per catalog entry, in catalog order,
\* each line being 'name: description' of its entry, and no line for
\* list_tables.
C16_OneLinePerEntry ==
    PromptBuilt =>
        /\ Len(PromptLines) = Len(tools)
        /\ \A i \in 1..Len(tools) : PromptLines[i] = EntryText(i)
        /\ \A i \in 1..Len(PromptLines) : PromptLines[i][1] # DENYLISTED

\* C16, amended: for a non-empty catalog, the enumeration is the texts
\* 'name: description' of the catalog entries in catalog order, each but the
\* first preceded by a line break and "- ", and nothing else: the first line
\* starts with the first entry's name and each later entry starts a line
\* with "- "; the enumeration has one line per entry plus one per line
\* break inside the descriptions (exactly one line per entry when every
\* description is a single line, and then line 1 is 'name: description' and
\* line i > 1 is '- name: description'); no entry is named list_tables.
C16_Enumeration ==
    PromptBuilt =>
        LET text == Enumeration(tools)
            n == Len(tools)
        IN /\ messages[1].content = SystemPrompt(tools)
           /\ Len(text) = EntryStart(n) + Len(EntryText(n)) - 1
           /\ \A i \in 1..n :
                  /\ SubSeq(text, EntryStart(i),
                            EntryStart(i) + Len(EntryText(i)) - 1) = EntryText(i)
                  /\ i > 1 => /\ text[EntryStart(i) - 2] = "\n"
                              /\ text[EntryStart(i) - 1] = "- "
                  /\ tools[i].name # DENYLISTED
           /\ Len(PromptLines) = n + BreaksUpTo(n)
           /\ BreaksUpTo(n) = 0 =>
                  \A i \in 1..n :
                      PromptLines[i] =
                          (IF i = 1 THEN <<>> ELSE <<"- ">>) \o EntryText(i)
C16_Witness ==
    /\ PromptBuilt
    /\ pc = "AWAITING_FIRST_RESPONSE"
    /\ Len(tools) = 2
    /\ Len(PromptLines) = 3
    /\ \E i \in 1..Len(mcp_tools) : mcp_tools[i].name = DENYLISTED


\* C17: a ToolCall whose name is no key of the catalog (list_tables too)
\* fails the turn with a lookup error: no request is sent for it or for a
\* later ToolCall of the response, the turn does not return, and in no turn
\* of the session a request is sent for an operation outside the catalog.
Unknown(call) == call.name \notin Keys(tools)
C17_UnknownToolFailsTurn ==
    /\ \A i \in 1..Len(ToolRequests) :
           /\ ToolRequests[i].name \in Keys(tools)
           /\ ToolRequests[i].name # DENYLISTED
           /\ ToolRequests[i].name = FirstCalls[i].name
    /\ \A j \in 1..Len(FirstCalls) :
           Unknown(FirstCalls[j]) =>
               /\ Len(ToolRequests) < j
               /\ Len(TurnToolMessages) < j
               /\ Len(CompletionRequests) <= 1
               /\ outcome # "returned"
               /\ (TurnOver /\ Len(TurnToolMessages) = j - 1) =>
                      /\ outcome = "raised"
                      /\ k = j
                      /\ error = IF ParseArguments(FirstCalls[j].arguments).kind
                                        = "JSONDecodeError"
                                 THEN "JSONDecodeError"
                                 ELSE "KeyError"
C17_Witness ==
    /\ turn = 2
    /\ TurnOver
    /\ error = "KeyError"
    /\ Len(FirstCalls) = 2
    /\ FirstCalls[1].name = DENYLISTED
    /\ FirstCalls[2].name \in Keys(tools)
    /\ ToolRequests = <<>>


\* A transcript that can be continued: it ends with an assistant message
\* without tool_calls, and every assistant message with tool_calls c1..cn is
\* directly followed by n tool messages, the i-th answering ci.
HasToolCalls(m) == "tool_calls" \in DOMAIN m
Answered(msgs, i) ==
    LET calls == msgs[i].tool_calls
    IN /\ i + Len(calls) <= Len(msgs)
       /\ \A j \in 1..Len(calls) :
              /\ msgs[i + j].role = "tool"
              /\ msgs[i + j].tool_call_id = calls[j].id
       /\ (i + Len(calls) < Len(msgs)) => msgs[i + Len(calls) + 1].role # "tool"
WellFormed(msgs) ==
    /\ msgs # <<>>
    /\ msgs[Len(msgs)].role = "assistant"
    /\ ~HasToolCalls(msgs[Len(msgs)])
    /\ \A i \in 1..Len(msgs) :
           /\ (msgs[i].role = "assistant" /\ HasToolCalls(msgs[i])) => Answered(msgs, i)
           /\ (msgs[i].role = "user" /\ i < Len(msgs)) => msgs[i + 1].role = "assistant"

\* C18: at the start of every turn of main's loop, the transcript main holds
\* for agent_loop is absent or well-formed: a failed turn leaves no dangling
\* user message, no assistant message with tool_calls without its tool
\* messages, and no partial run of tool messages.
AtTurnStart == main_pc = "input"
C18_WellFormedAtTurnStart == (AtTurnStart /\ carried) => WellFormed(messages)


\* C19: when every completion call and every tool invocation returns or
\* raises, every call of agent_loop ends, by returning the answer or by an
\* error, and it sends at most two completion requests and at most one tool
\* request per ToolCall of the first response.
InAgentLoop == pc # "idle"
AgentLoopEnded ==
    /\ pc = "idle"
    /\ \/ outcome = "returned" /\ main_pc = "input"
       \/ outcome = "raised" /\ error # "none"
       \/ exit_cause = "interrupt"
C19_Terminates ==
    /\ [](Len(CompletionRequests) <= 2 /\ Len(ToolRequests) <= Len(FirstCalls))
    /\ InAgentLoop ~> AgentLoopEnded
C19_Witness ==
    /\ AgentLoopEnded
    /\ outcome = "returned"
    /\ Len(CompletionRequests) = 2
    /\ Len(ToolRequests) = Len(FirstCalls)
    /\ Len(FirstCalls) = MaxCalls
    /\ replies = 2 + MaxCalls

====
